---- MODULE Spec2Model ----
(***************************************************************************)
(* Model of the candidate-ingestion program: the field parsers and the     *)
(* XLSX reader of application/reader.py and the resumable ingestion loop   *)
(* of application/__main__.py.                                             *)
(*                                                                         *)
(* Text is a sequence of one-character strings.  Python values are tagged  *)
(* records: PyNone, PyStr(s), PyInt(n).  A parser result is a tagged       *)
(* record too: RNone (the null result), RMap(m) (a mapping, m a function   *)
(* from key names to Python values) or RRaise(e) (an exception escaped).   *)
(***************************************************************************)
EXTENDS Integers, Sequences, FiniteSets, TLC

VARIABLES
    \* ---- parser harness (ParseSpec) ----
    cell,         \* the raw cell value handed to a parser
    field,        \* the parser variant that was applied ("init" before)
    parsed,       \* what parse returned
    \* ---- the program (Spec) ----
    book,         \* the spreadsheet file: a sequence of data rows (5 raw cells each)
    status_file,  \* the checkpoint file: [exists, text]
    pc,           \* position of the run
    row_number,   \* the in-memory cursor
    workbook,     \* XLSXReader.workbook: "None" or "open"
    sheet,        \* XLSXReader.sheet: "None" or "sheet"
    candidate,    \* the record read_row returned (a mapping)
    resume,       \* the upload response: "unset", "empty" ({}) or "uploaded"
    fault,        \* the exception propagating out of the loop, "none" if none
    runs,         \* number of runs started
    \* ---- history (observation only) ----
    start0,       \* the checkpoint the first run started from
    run_start,    \* the checkpoint the current run started from
    created,      \* created[r]: successful applicants.add calls for row r
    attached,     \* attached[r]: successful add_to_vacancy calls for row r
    completed,    \* completed[r]: times the cursor advanced past row r
    subs,         \* successful applicants.add calls in the current run
    post_faults,  \* post_faults[r]: faults raised in row r after its creation call
    rows_done,    \* rows whose processing completed in the current run
    exit_kind,    \* how the last run ended: "none", "exhausted", "fault", "prelude"
    written,      \* number of checkpoint writes in the current run
    exhausted_at, \* the cursor at the first run that ended by exhaustion, 0 if none
    exhausted_run, \* the number of that run, 0 if none
    cur_row,      \* the row index last handed to read_row in the current run, 0 if none
    local_fault,  \* some run ended by an exception the program itself raised
    \* ---- the reader driven on its own (ReaderSpec); history but in_with ----
    in_with,      \* control is inside a "with reader:" block
    wb_id,        \* which loaded workbook XLSXReader.workbook holds, 0 if None
    loaded,       \* number of workbooks load_workbook has returned
    closed,       \* closed[w]: times workbook.close() was called on workbook w
    reopens,      \* times open closed a workbook that was still open
    last_op,      \* the last reader operation called
    last_res      \* its outcome: "ok" or the exception it raised

vars == <<cell, field, parsed, book, status_file, pc, row_number, workbook, sheet,
          candidate, resume, fault, runs, start0, run_start, created, attached,
          completed, post_faults, subs, rows_done, exit_kind, written,
          exhausted_at, exhausted_run, cur_row, local_fault,
          in_with, wb_id, loaded, closed, reopens, last_op, last_res>>

parseVars == <<cell, field, parsed>>
readerVars == <<in_with, wb_id, loaded, closed, reopens, last_op, last_res>>
progVars == <<book, status_file, pc, row_number, workbook, sheet, candidate, resume,
              fault, runs, start0, run_start, created, attached, completed,
              post_faults, subs, rows_done, exit_kind, written, exhausted_at,
              exhausted_run, cur_row, local_fault>>

----------------------------------------------------------------------------
\* Bounds of the model

\* longest text handed to a parser in ParseSpec
MaxLen == 3
\* largest number a numeric cell holds in ParseSpec
MaxNum == 2
\* number of data rows of the spreadsheet
MaxRows == 2
\* number of runs of the program over the spreadsheet
MaxRuns == 3
\* number of workbooks loaded by a reader in ReaderSpec
MaxOpens == 3

----------------------------------------------------------------------------
\* Python values and text

PyNone == [t |-> "none"]
PyStr(s) == [t |-> "str", s |-> s]
PyInt(n) == [t |-> "int", n |-> n]

RNone == [tag |-> "none"]
RMap(m) == [tag |-> "map", m |-> m]
RRaise(e) == [tag |-> "raise", exc |-> e]

\* the empty dict
EmptyMap == [k \in {} |-> PyNone]

DigitStr == <<"0", "1", "2", "3", "4", "5", "6", "7", "8", "9">>
Digits == {DigitStr[i] : i \in 1..10}
DigitVal(c) == (CHOOSE i \in 1..10 : DigitStr[i] = c) - 1

\* \s of Python's re on str: space, tab, and Unicode spaces such as U+00A0
\* (written "nbsp", one character)
Whitespace == {" ", "\t", "nbsp"}

\* str(n) for a non-negative int
RECURSIVE IntToStr(_)
IntToStr(n) ==
    IF n < 10 THEN <<DigitStr[n + 1]>>
    ELSE Append(IntToStr(n \div 10), DigitStr[(n % 10) + 1])

\* int(s) for a text of decimal digits (leading zeros allowed)
RECURSIVE StrToInt(_)
StrToInt(s) ==
    IF Len(s) = 0 THEN 0
    ELSE 10 * StrToInt(SubSeq(s, 1, Len(s) - 1)) + DigitVal(s[Len(s)])

\* str(value)
str(v) ==
    CASE v.t = "none" -> <<"N", "o", "n", "e">>
      [] v.t = "str" -> v.s
      [] v.t = "int" -> IntToStr(v.n)

\* bool(value) for the values the parsers test
truthy(v) ==
    CASE v.t = "none" -> FALSE
      [] v.t = "str" -> Len(v.s) > 0
      [] v.t = "int" -> v.n # 0

\* unicodedata.normalize('NFKC', c) for one character of the model's alphabet:
\* U+00A0 has the compatibility decomposition U+0020; the others are ASCII
NFKC(c) == IF c = "nbsp" THEN " " ELSE c

normalize(s) == [i \in 1..Len(s) |-> NFKC(s[i])]

----------------------------------------------------------------------------
\* Field parsers (reader.py)

StringField__parse(v) ==
    IF v.t # "none" THEN PyStr(normalize(str(v))) ELSE PyNone

\* end (exclusive) of the maximal run of characters of set cs starting at i
RECURSIVE RunEnd(_, _, _)
RunEnd(s, i, cs) ==
    IF i <= Len(s) /\ s[i] \in cs THEN RunEnd(s, i + 1, cs) ELSE i

\* (\s+(\d)+)* greedily from position j: the end (exclusive) of the match
RECURSIVE GroupsEnd(_, _)
GroupsEnd(s, j) ==
    LET k == RunEnd(s, j, Whitespace)
    IN IF k > j /\ k <= Len(s) /\ s[k] \in Digits
       THEN GroupsEnd(s, RunEnd(s, k, Digits))
       ELSE j

\* re.search(r'(\d)+(\s+(\d)+)*', s): <<>> when there is no match, else <<search[0]>>
re_search(s) ==
    LET starts == {i \in 1..Len(s) : s[i] \in Digits}
    IN IF starts = {} THEN <<>>
       ELSE LET i == CHOOSE x \in starts : \A y \in starts : x <= y
                e == GroupsEnd(s, RunEnd(s, i, Digits))
            IN <<SubSeq(s, i, e - 1)>>

\* re.sub(r'\s', '', s)
re_sub_ws(s) == SelectSeq(s, LAMBDA c : c \notin Whitespace)

SeparatedIntegerField__parse(v) ==
    LET search == re_search(str(v))
    IN IF search = <<>> THEN PyNone
       ELSE PyInt(StrToInt(re_sub_ws(search[1])))

\* 'руб', transliterated
Currency == <<"r", "u", "b">>

Salary__parse(v) ==
    LET value == SeparatedIntegerField__parse(v)
    IN IF value.t # "none" THEN PyStr(str(value) \o <<" ">> \o Currency)
       ELSE PyNone

\* StringField.parse with self._parse resolved per variant
StringField_parse(name, value) ==
    IF truthy(value) THEN RMap((name :> value)) ELSE RNone

\* value.split(' '): splits at every single space, keeping empty pieces
RECURSIVE split(_)
split(s) ==
    LET sp == {i \in 1..Len(s) : s[i] = " "}
    IN IF sp = {} THEN <<s>>
       ELSE LET i == CHOOSE x \in sp : \A y \in sp : x <= y
            IN <<SubSeq(s, 1, i - 1)>> \o split(SubSeq(s, i + 1, Len(s)))

FullNameField_parse(v) ==
    IF ~truthy(v) THEN RNone
    ELSE IF v.t # "str" THEN RRaise("AttributeError")
    ELSE LET value == split(v.s)
         IN IF Len(value) < 2 THEN RNone
            ELSE LET res == ("last_name" :> PyStr(normalize(value[1]))) @@
                            ("first_name" :> PyStr(normalize(value[2])))
                 IN IF Len(value) > 2
                    THEN RMap(("middle_name" :> PyStr(normalize(value[3]))) @@ res)
                    ELSE RMap(res)

\* the parser variants and field.parse(value) for each
Variants == {"StringField", "SeparatedIntegerField", "Salary", "StatsField",
             "FullNameField"}

parse(variant, name, v) ==
    CASE variant = "StringField" -> StringField_parse(name, StringField__parse(v))
      [] variant = "StatsField" -> StringField_parse(name, StringField__parse(v))
      [] variant = "SeparatedIntegerField" ->
            StringField_parse(name, SeparatedIntegerField__parse(v))
      [] variant = "Salary" -> StringField_parse(name, Salary__parse(v))
      [] variant = "FullNameField" -> FullNameField_parse(v)

----------------------------------------------------------------------------
\* Parser harness: every variant applied to every raw cell value of the bounds

Alphabet == {"a", "0", "1", " ", "\t", "nbsp"}

RECURSIVE Texts(_)
Texts(n) ==
    IF n = 0 THEN {<<>>}
    ELSE LET shorter == Texts(n - 1)
         IN shorter \cup {Append(s, c) : s \in {x \in shorter : Len(x) = n - 1},
                                          c \in Alphabet}

\* a cell of openpyxl: absent, a string, or a number
RawValues == {PyNone} \cup {PyStr(s) : s \in Texts(MaxLen)} \cup {PyInt(n) : n \in 0..MaxNum}

Apply(variant) ==
    /\ field = "init"
    /\ field' = variant
    /\ parsed' = parse(variant, "f", cell)
    /\ UNCHANGED <<cell>>
    /\ UNCHANGED <<progVars, readerVars>>

ParseStringField == Apply("StringField")
ParseSeparatedIntegerField == Apply("SeparatedIntegerField")
ParseSalary == Apply("Salary")
ParseStatsField == Apply("StatsField")
ParseFullNameField == Apply("FullNameField")

----------------------------------------------------------------------------
\* The row extractor (XLSXReader.read_row) and the configured fields

FIELDS == <<[variant |-> "StringField", name |-> "vacancy"],
            [variant |-> "FullNameField", name |-> "full name"],
            [variant |-> "Salary", name |-> "money"],
            [variant |-> "StringField", name |-> "comment"],
            [variant |-> "StatsField", name |-> "status"]>>

\* the header row of the sheet (header_exists = True: it is skipped)
HeaderRow == <<PyStr(<<"a">>), PyStr(<<"a">>), PyStr(<<"a">>), PyStr(<<"a">>),
               PyStr(<<"a">>)>>

\* a row past the last one: openpyxl gives cells whose value is None
BlankRow == <<PyNone, PyNone, PyNone, PyNone, PyNone>>

\* self.sheet[n] of the loaded workbook, n 1-based, the header being row 1
sheet_row(b, n) ==
    LET rows == <<HeaderRow>> \o b
    IN IF n <= Len(rows) THEN rows[n] ELSE BlankRow

\* the for loop of read_row from column i on, data being the dict built so far
RECURSIVE read_fields(_, _, _)
read_fields(row, i, data) ==
    IF i > Len(FIELDS) THEN RMap(data)
    ELSE LET value == parse(FIELDS[i].variant, FIELDS[i].name, row[i])
         IN IF value.tag = "raise" THEN value
            ELSE IF value.tag = "map" /\ DOMAIN value.m # {}
                 THEN read_fields(row, i + 1, value.m @@ data)
                 ELSE read_fields(row, i + 1, data)

\* reader.read_row(n) on an open reader with header_exists = True
read_row(b, n) == read_fields(sheet_row(b, n + 1), 1, EmptyMap)

----------------------------------------------------------------------------
\* The data of a run: the dictionaries fetched from the service and the rows

Dev == <<"D", "e", "v">>
Ops == <<"O", "p", "s">>
NewLead == <<"N", "e", "w", " ", "L", "e", "a", "d">>
Declined == <<"D", "e", "c", "l", "i", "n", "e", "d">>
Hired == <<"H", "i", "r", "e", "d">>
IvIv == <<"I", "v", " ", "I", "v">>
IvIvIv == <<"I", "v", " ", "I", "v", " ", "I", "v">>
Money == <<"1", "2", "0", " ", "0", "0", "0">>
Ok == <<"o", "k">>

\* vacancies: position -> vacancy id; statuses: name -> status id
vacancies == (Dev :> 11)
statuses == (NewLead :> 21) @@ (Declined :> 22)

\* a row with every field, its vacancy and status both in the dictionaries
FullRow == <<PyStr(Dev), PyStr(IvIv), PyStr(Money), PyStr(Ok), PyStr(NewLead)>>
\* every field, vacancy name not in the dictionary
MissVacancyRow == <<PyStr(Ops), PyStr(IvIvIv), PyStr(Money), PyStr(Ok), PyStr(NewLead)>>
\* every field, status name not in the dictionary
MissStatusRow == <<PyStr(Dev), PyStr(IvIv), PyInt(7), PyStr(Ok), PyStr(Hired)>>
\* a one-token name and an empty salary cell: a non-empty partial record
PartialRow == <<PyStr(Dev), PyStr(<<"X">>), PyStr(<<>>), PyStr(<<>>), PyStr(Declined)>>
\* every field but the comment
NoCommentRow == <<PyStr(Dev), PyStr(IvIv), PyStr(Money), PyNone, PyStr(NewLead)>>
\* a number in the name cell
NumNameRow == <<PyStr(Dev), PyInt(7), PyStr(Money), PyStr(Ok), PyStr(NewLead)>>

RowKinds == {FullRow, MissVacancyRow, MissStatusRow, PartialRow, NoCommentRow,
             NumNameRow, BlankRow}

Books == [1..MaxRows -> RowKinds]

\* row indices the cursor can take
RowIdx == 1..(MaxRows + 2)

----------------------------------------------------------------------------
\* The ingestion loop (__main__.py)

NoFile == [exists |-> FALSE, text |-> <<>>]
FileOf(n) == [exists |-> TRUE, text |-> IntToStr(n)]

\* the checkpoint file is ignored: every run starts at row 1
load_Restart(f) == 1

\* lines 30-35: the checkpoint load
load(f) == IF f.exists THEN StrToInt(f.text) ELSE 1

\* vacancies.get(candidate['vacancy']) is not None, for a candidate with the key
vacancy_found(c) == c["vacancy"].s \in DOMAIN vacancies
status_found(c) == c["status"].s \in DOMAIN statuses

\* "or" where the code has "and"
attach_guard_Or(c) == status_found(c) \/ vacancy_found(c)

\* line 87: if status and vacancy
attach_guard(c) == status_found(c) /\ vacancy_found(c)

\* the keys lines 49-61 read from the candidate, in evaluation order
RequiredKeys == <<"vacancy", "status", "last_name", "first_name", "money">>

\* the first key of ks (from position i) that c lacks, "" when it has them all
RECURSIVE first_missing(_, _, _)
first_missing(c, ks, i) ==
    IF i > Len(ks) THEN ""
    ELSE IF ks[i] \notin DOMAIN c THEN ks[i]
    ELSE first_missing(c, ks, i + 1)

\* the faults of the external collaborators (the workbook loader, the service)
ExternalFaults == {"open", "upload", "applicants.add", "add_to_vacancy"}

\* XLSXReader.close(), called by __exit__ when the with block is left
ReaderClose ==
    /\ sheet' = "None"
    /\ workbook' = "None"

\* an exception raised inside the with block: __exit__ closes the reader and
\* the exception reaches the finally clause
Raise(f) ==
    /\ fault' = f
    /\ pc' = "finally"
    /\ local_fault' = (local_fault \/ f \notin ExternalFaults)
    /\ ReaderClose

Histories == <<start0, run_start, created, attached, completed, post_faults, subs,
               rows_done, exit_kind, written, exhausted_at, exhausted_run, cur_row>>

\* the process dies in the module-level API calls (lines 19-27), before the
\* checkpoint is read
PreludeFault ==
    /\ UNCHANGED local_fault
    /\ pc = "idle"
    /\ runs < MaxRuns
    /\ runs' = runs + 1
    /\ fault' = "prelude"
    /\ exit_kind' = "prelude"
    /\ subs' = 0
    /\ rows_done' = 0
    /\ written' = 0
    /\ cur_row' = 0
    /\ UNCHANGED <<book, status_file, pc, row_number, workbook, sheet, candidate, resume,
                   start0, run_start, created, attached, completed, post_faults,
                   exhausted_at, exhausted_run>>
    /\ UNCHANGED <<parseVars, readerVars>>

\* lines 15-35: a new process builds its reader and loads the checkpoint
StartRun ==
    /\ UNCHANGED local_fault
    /\ pc = "idle"
    /\ runs < MaxRuns
    /\ runs' = runs + 1
    /\ row_number' = load(status_file)
    /\ workbook' = "None"
    /\ sheet' = "None"
    /\ candidate' = EmptyMap
    /\ resume' = "unset"
    /\ fault' = "none"
    /\ pc' = "open"
    /\ run_start' = load(status_file)
    /\ subs' = 0
    /\ rows_done' = 0
    /\ written' = 0
    /\ cur_row' = 0
    /\ exit_kind' = "none"
    /\ UNCHANGED <<book, status_file, start0, created, attached, completed, post_faults,
                   exhausted_at, exhausted_run>>
    /\ UNCHANGED <<parseVars, readerVars>>

\* line 39: reader.open(path) loads the workbook, selects sheet 0, __enter__
Open ==
    /\ UNCHANGED local_fault
    /\ pc = "open"
    /\ workbook' = "open"
    /\ sheet' = "sheet"
    /\ pc' = "read"
    /\ UNCHANGED <<book, status_file, row_number, candidate, resume, fault, runs>>
    /\ UNCHANGED Histories
    /\ UNCHANGED <<parseVars, readerVars>>

\* line 39: load_workbook raises (no file, not a workbook): the with block is
\* never entered
OpenFault ==
    /\ UNCHANGED local_fault
    /\ pc = "open"
    /\ fault' = "open"
    /\ pc' = "finally"
    /\ UNCHANGED <<book, status_file, row_number, workbook, sheet, candidate, resume, runs>>
    /\ UNCHANGED Histories
    /\ UNCHANGED <<parseVars, readerVars>>

\* lines 43-46: read the row; an empty record ends the loop
ReadRow ==
    /\ pc = "read"
    /\ workbook # "None"
    /\ LET r == read_row(book, row_number)
       IN /\ resume' = "unset"
          /\ IF r.tag = "raise"
             THEN /\ Raise("read_row")
                  /\ candidate' = EmptyMap
             ELSE IF DOMAIN r.m = {}
             THEN /\ candidate' = r.m
                  /\ fault' = "none"
                  /\ pc' = "finally"
                  /\ ReaderClose
                  /\ UNCHANGED local_fault
             ELSE /\ candidate' = r.m
                  /\ pc' = "build"
                  /\ UNCHANGED <<fault, workbook, sheet, local_fault>>
    /\ cur_row' = row_number
    /\ UNCHANGED <<book, status_file, row_number, runs>>
    /\ UNCHANGED <<start0, run_start, created, attached, completed, post_faults, subs,
                   rows_done, exit_kind, written, exhausted_at, exhausted_run>>
    /\ UNCHANGED <<parseVars, readerVars>>

\* lines 48-64: look the vacancy and the status up, build the applicant
BuildApplicant ==
    /\ pc = "build"
    /\ LET k == first_missing(candidate, RequiredKeys, 1)
       IN IF k # ""
          THEN Raise("KeyError")
          ELSE /\ pc' = "resume"
               /\ UNCHANGED <<fault, workbook, sheet, local_fault>>
    /\ UNCHANGED <<book, status_file, row_number, candidate, resume, runs>>
    /\ UNCHANGED Histories
    /\ UNCHANGED <<parseVars, readerVars>>

\* what find_resume returns: a file path or None
find_resume_results == {"path", "None"}

\* lines 66-81: no resume file found, resume = {}
ResumeMissing ==
    /\ UNCHANGED local_fault
    /\ pc = "resume"
    /\ "None" \in find_resume_results
    /\ resume' = "empty"
    /\ pc' = "add"
    /\ UNCHANGED <<book, status_file, row_number, workbook, sheet, candidate, fault, runs>>
    /\ UNCHANGED Histories
    /\ UNCHANGED <<parseVars, readerVars>>

\* lines 66-81: the resume file is found and client.file.upload returns
ResumeUploaded ==
    /\ UNCHANGED local_fault
    /\ pc = "resume"
    /\ "path" \in find_resume_results
    /\ resume' = "uploaded"
    /\ pc' = "add"
    /\ UNCHANGED <<book, status_file, row_number, workbook, sheet, candidate, fault, runs>>
    /\ UNCHANGED Histories
    /\ UNCHANGED <<parseVars, readerVars>>

\* line 78: client.file.upload raises
UploadFault ==
    /\ pc = "resume"
    /\ "path" \in find_resume_results
    /\ Raise("upload")
    /\ UNCHANGED <<book, status_file, row_number, candidate, resume, runs>>
    /\ UNCHANGED Histories
    /\ UNCHANGED <<parseVars, readerVars>>

\* line 84: client.applicants.add returns the created applicant
AddApplicant ==
    /\ UNCHANGED local_fault
    /\ pc = "add"
    /\ created' = [created EXCEPT ![row_number] = @ + 1]
    /\ subs' = subs + 1
    /\ pc' = IF attach_guard(candidate) THEN "attach" ELSE "advance"
    /\ UNCHANGED <<book, status_file, row_number, workbook, sheet, candidate, resume,
                   fault, runs>>
    /\ UNCHANGED <<start0, run_start, attached, completed, post_faults, rows_done,
                   exit_kind, written, exhausted_at, exhausted_run, cur_row>>
    /\ UNCHANGED <<parseVars, readerVars>>

\* the exception of applicants.add is caught and the loop goes on
AddApplicantFault_Swallowed ==
    /\ UNCHANGED local_fault
    /\ pc = "add"
    /\ pc' = "advance"
    /\ UNCHANGED <<book, status_file, row_number, workbook, sheet, candidate, resume,
                   fault, runs>>
    /\ UNCHANGED Histories
    /\ UNCHANGED <<parseVars, readerVars>>

\* line 84: client.applicants.add raises RequesterError
AddApplicantFault ==
    /\ pc = "add"
    /\ Raise("applicants.add")
    /\ UNCHANGED <<book, status_file, row_number, candidate, resume, runs>>
    /\ UNCHANGED Histories
    /\ UNCHANGED <<parseVars, readerVars>>

\* the exception lines 89-94 raise while the request is built, "" if none:
\* candidate['comment'], then resume['id']
attach_data_error(c, res) ==
    IF "comment" \notin DOMAIN c THEN "KeyError:comment"
    ELSE IF res = "empty" THEN "KeyError:id"
    ELSE ""

\* lines 87-96: the candidate is attached to the vacancy
AddToVacancy ==
    /\ pc = "attach"
    /\ LET e == attach_data_error(candidate, resume)
       IN IF e # ""
          THEN /\ Raise(e)
               /\ post_faults' = [post_faults EXCEPT ![row_number] = @ + 1]
               /\ UNCHANGED attached
          ELSE /\ attached' = [attached EXCEPT ![row_number] = @ + 1]
               /\ pc' = "advance"
               /\ UNCHANGED <<fault, workbook, sheet, post_faults, local_fault>>
    /\ UNCHANGED <<book, status_file, row_number, candidate, resume, runs>>
    /\ UNCHANGED <<start0, run_start, created, completed, subs, rows_done, exit_kind,
                   written, exhausted_at, exhausted_run, cur_row>>
    /\ UNCHANGED <<parseVars, readerVars>>

\* line 95: client.applicants.add_to_vacancy raises RequesterError
AddToVacancyFault ==
    /\ pc = "attach"
    /\ attach_data_error(candidate, resume) = ""
    /\ Raise("add_to_vacancy")
    /\ post_faults' = [post_faults EXCEPT ![row_number] = @ + 1]
    /\ UNCHANGED <<book, status_file, row_number, candidate, resume, runs>>
    /\ UNCHANGED <<start0, run_start, created, attached, completed, subs, rows_done,
                   exit_kind, written, exhausted_at, exhausted_run, cur_row>>
    /\ UNCHANGED <<parseVars, readerVars>>

\* the checkpoint is saved after every row instead of once at the end
Advance_Saving ==
    /\ UNCHANGED local_fault
    /\ pc = "advance"
    /\ row_number' = row_number + 1
    /\ status_file' = [exists |-> TRUE, text |-> IntToStr(row_number + 1)]
    /\ written' = written + 1
    /\ completed' = [completed EXCEPT ![row_number] = @ + 1]
    /\ rows_done' = rows_done + 1
    /\ pc' = "read"
    /\ UNCHANGED <<book, workbook, sheet, candidate, resume, fault, runs>>
    /\ UNCHANGED <<start0, run_start, created, attached, post_faults, subs, exit_kind,
                   exhausted_at, exhausted_run, cur_row>>
    /\ UNCHANGED <<parseVars, readerVars>>

\* line 98: row_number += 1, and the loop goes round
Advance ==
    /\ UNCHANGED local_fault
    /\ pc = "advance"
    /\ row_number' = row_number + 1
    /\ completed' = [completed EXCEPT ![row_number] = @ + 1]
    /\ rows_done' = rows_done + 1
    /\ pc' = "read"
    /\ UNCHANGED <<book, status_file, workbook, sheet, candidate, resume, fault, runs>>
    /\ UNCHANGED <<start0, run_start, created, attached, post_faults, subs, exit_kind,
                   written, exhausted_at, exhausted_run, cur_row>>
    /\ UNCHANGED <<parseVars, readerVars>>

\* the write sits in an else clause: it is skipped when an exception propagates
Finally_OnSuccessOnly ==
    /\ UNCHANGED local_fault
    /\ pc = "finally"
    /\ status_file' = IF fault = "none"
                      THEN [exists |-> TRUE, text |-> IntToStr(row_number)]
                      ELSE status_file
    /\ written' = IF fault = "none" THEN written + 1 ELSE written
    /\ exit_kind' = IF fault = "none" THEN "exhausted" ELSE "fault"
    /\ exhausted_at' = IF fault = "none" /\ exhausted_at = 0 THEN row_number
                       ELSE exhausted_at
    /\ exhausted_run' = IF fault = "none" /\ exhausted_at = 0 THEN runs
                        ELSE exhausted_run
    /\ pc' = "idle"
    /\ UNCHANGED <<book, row_number, workbook, sheet, candidate, resume, fault, runs>>
    /\ UNCHANGED <<start0, run_start, created, attached, completed, post_faults, subs,
                   rows_done, cur_row>>
    /\ UNCHANGED <<parseVars, readerVars>>

\* the write stores the index after the cursor
Finally_OffByOne ==
    /\ UNCHANGED local_fault
    /\ pc = "finally"
    /\ status_file' = [exists |-> TRUE, text |-> IntToStr(row_number + 1)]
    /\ written' = written + 1
    /\ exit_kind' = IF fault = "none" THEN "exhausted" ELSE "fault"
    /\ exhausted_at' = IF fault = "none" /\ exhausted_at = 0 THEN row_number
                       ELSE exhausted_at
    /\ exhausted_run' = IF fault = "none" /\ exhausted_at = 0 THEN runs
                        ELSE exhausted_run
    /\ pc' = "idle"
    /\ UNCHANGED <<book, row_number, workbook, sheet, candidate, resume, fault, runs>>
    /\ UNCHANGED <<start0, run_start, created, attached, completed, post_faults, subs,
                   rows_done, cur_row>>
    /\ UNCHANGED <<parseVars, readerVars>>

\* lines 99-102: the finally clause writes the cursor; the process then ends
\* (normally, or with the exception that was propagating)
Finally ==
    /\ UNCHANGED local_fault
    /\ pc = "finally"
    /\ status_file' = [exists |-> TRUE, text |-> IntToStr(row_number)]
    /\ written' = written + 1
    /\ exit_kind' = IF fault = "none" THEN "exhausted" ELSE "fault"
    /\ exhausted_at' = IF fault = "none" /\ exhausted_at = 0 THEN row_number
                       ELSE exhausted_at
    /\ exhausted_run' = IF fault = "none" /\ exhausted_at = 0 THEN runs
                        ELSE exhausted_run
    /\ pc' = "idle"
    /\ UNCHANGED <<book, row_number, workbook, sheet, candidate, resume, fault, runs>>
    /\ UNCHANGED <<start0, run_start, created, attached, completed, post_faults, subs,
                   rows_done, cur_row>>
    /\ UNCHANGED <<parseVars, readerVars>>

----------------------------------------------------------------------------
\* Specifications

ParseIdle ==
    /\ cell = PyNone
    /\ field = "init"
    /\ parsed = RNone

ReaderIdle ==
    /\ in_with = FALSE
    /\ wb_id = 0
    /\ loaded = 0
    /\ closed = [w \in 1..MaxOpens |-> 0]
    /\ reopens = 0
    /\ last_op = "init"
    /\ last_res = "ok"

ProgIdle(b, f) ==
    /\ book = b
    /\ status_file = f
    /\ pc = "idle"
    /\ row_number = 1
    /\ workbook = "None"
    /\ sheet = "None"
    /\ candidate = EmptyMap
    /\ resume = "unset"
    /\ fault = "none"
    /\ runs = 0
    /\ start0 = load(f)
    /\ run_start = load(f)
    /\ created = [r \in RowIdx |-> 0]
    /\ attached = [r \in RowIdx |-> 0]
    /\ completed = [r \in RowIdx |-> 0]
    /\ post_faults = [r \in RowIdx |-> 0]
    /\ subs = 0
    /\ rows_done = 0
    /\ exit_kind = "none"
    /\ written = 0
    /\ exhausted_at = 0
    /\ exhausted_run = 0
    /\ cur_row = 0
    /\ local_fault = FALSE

\* the program over a spreadsheet of MaxRows rows, from no checkpoint file or
\* from one an earlier run left
Init ==
    /\ ParseIdle
    /\ ReaderIdle
    /\ \E b \in Books, f \in {NoFile} \cup {FileOf(n) : n \in 1..(MaxRows + 1)} :
          ProgIdle(b, f)

Next ==
    \/ PreludeFault
    \/ StartRun
    \/ Open
    \/ OpenFault
    \/ ReadRow
    \/ BuildApplicant
    \/ ResumeMissing
    \/ ResumeUploaded
    \/ UploadFault
    \/ AddApplicant
    \/ AddApplicantFault
    \/ AddToVacancy
    \/ AddToVacancyFault
    \/ Advance
    \/ Finally

Spec == Init /\ [][Next]_vars

\* the parsers alone: one raw cell value, one variant applied to it
ParseInit ==
    /\ cell \in RawValues
    /\ field = "init"
    /\ parsed = RNone
    /\ ReaderIdle
    /\ ProgIdle(<<>>, NoFile)

ParseNext ==
    \/ ParseStringField
    \/ ParseSeparatedIntegerField
    \/ ParseSalary
    \/ ParseStatsField
    \/ ParseFullNameField

ParseSpec == ParseInit /\ [][ParseNext]_vars

----------------------------------------------------------------------------
\* The reader driven on its own: any sequence of open, close, read_row and of
\* entering and leaving a with block (reader.py lines 29-89)

\* the program state a reader operation does not touch
loopVars == <<book, status_file, pc, row_number, resume, fault, runs, start0,
              run_start, created, attached, completed, post_faults, subs, rows_done,
              exit_kind, written, exhausted_at, exhausted_run, cur_row, local_fault>>

\* how a call of open ends: the workbook is loaded and the sheet selected,
\* load_workbook raises, or worksheets[sheet_number] raises IndexError
OpenOutcomes == {"ok", "load_error", "bad_sheet"}

\* how control leaves a with block
ExitPaths == {"normal", "break", "exception"}

\* open drops the workbook it holds without closing it
open_never_closes(wb) == FALSE

\* line 52: if self.workbook is not None (then self.close())
open_must_close(wb) == wb # "None"

\* lines 42-56: XLSXReader.open
XLSXReader_open ==
    /\ loaded < MaxOpens
    /\ \E outcome \in OpenOutcomes :
          LET closing == open_must_close(workbook)
              \* the state after lines 52-53
              wb1 == IF closing \/ workbook = "None" THEN "None" ELSE workbook
              sh1 == IF closing THEN "None" ELSE sheet
              id1 == IF closing \/ workbook = "None" THEN 0 ELSE wb_id
          IN /\ closed' = IF closing /\ wb_id # 0
                          THEN [closed EXCEPT ![wb_id] = @ + 1] ELSE closed
             /\ reopens' = IF closing THEN reopens + 1 ELSE reopens
             /\ last_op' = "open"
             /\ CASE outcome = "load_error" ->
                       /\ workbook' = wb1
                       /\ sheet' = sh1
                       /\ wb_id' = id1
                       /\ loaded' = loaded
                       /\ last_res' = "load_error"
                  [] outcome = "bad_sheet" ->
                       /\ workbook' = "open"
                       /\ sheet' = sh1
                       /\ wb_id' = loaded + 1
                       /\ loaded' = loaded + 1
                       /\ last_res' = "IndexError"
                  [] outcome = "ok" ->
                       /\ workbook' = "open"
                       /\ sheet' = "sheet"
                       /\ wb_id' = loaded + 1
                       /\ loaded' = loaded + 1
                       /\ last_res' = "ok"
    /\ UNCHANGED <<candidate, in_with>>
    /\ UNCHANGED loopVars
    /\ UNCHANGED parseVars

\* lines 58-67: XLSXReader.close, the effect on the reader and its workbook
CloseEffect ==
    IF workbook = "None"
    THEN /\ last_res' = "XLSXReaderException"
         /\ UNCHANGED <<workbook, sheet, wb_id, closed>>
    ELSE /\ sheet' = "None"
         /\ closed' = [closed EXCEPT ![wb_id] = @ + 1]
         /\ workbook' = "None"
         /\ wb_id' = 0
         /\ last_res' = "ok"

\* lines 58-67: a call of close
XLSXReader_close ==
    /\ last_op' = "close"
    /\ CloseEffect
    /\ UNCHANGED <<candidate, in_with, loaded, reopens>>
    /\ UNCHANGED loopVars
    /\ UNCHANGED parseVars

\* lines 69-89: XLSXReader.read_row; with the sheet unset, self.sheet[row_number]
\* raises TypeError
XLSXReader_read_row ==
    /\ \E n \in 1..(MaxRows + 1) :
          /\ last_op' = "read_row"
          /\ IF workbook = "None"
             THEN /\ last_res' = "XLSXReaderException"
                  /\ UNCHANGED candidate
             ELSE IF sheet = "None"
             THEN /\ last_res' = "TypeError"
                  /\ UNCHANGED candidate
             ELSE LET r == read_row(book, n)
                  IN IF r.tag = "raise"
                     THEN /\ last_res' = r.exc
                          /\ UNCHANGED candidate
                     ELSE /\ last_res' = "ok"
                          /\ candidate' = r.m
    /\ UNCHANGED <<workbook, sheet, in_with, wb_id, loaded, closed, reopens>>
    /\ UNCHANGED loopVars
    /\ UNCHANGED parseVars

\* lines 29-36: __enter__, at the start of a with block
XLSXReader_enter ==
    /\ ~in_with
    /\ last_op' = "enter"
    /\ IF workbook = "None"
       THEN /\ last_res' = "XLSXReaderException"
            /\ UNCHANGED in_with
       ELSE /\ last_res' = "ok"
            /\ in_with' = TRUE
    /\ UNCHANGED <<workbook, sheet, candidate, wb_id, loaded, closed, reopens>>
    /\ UNCHANGED loopVars
    /\ UNCHANGED parseVars

\* lines 38-40: __exit__, when control leaves the with block on any path
XLSXReader_exit ==
    /\ in_with
    /\ \E path \in ExitPaths : last_op' = path
    /\ in_with' = FALSE
    /\ CloseEffect
    /\ UNCHANGED <<candidate, loaded, reopens>>
    /\ UNCHANGED loopVars
    /\ UNCHANGED parseVars

\* a new reader (lines 24-27) over some spreadsheet
ReaderInit ==
    /\ ParseIdle
    /\ ReaderIdle
    /\ \E b \in Books : ProgIdle(b, NoFile)

ReaderNext ==
    \/ XLSXReader_open
    \/ XLSXReader_close
    \/ XLSXReader_read_row
    \/ XLSXReader_enter
    \/ XLSXReader_exit

ReaderSpec == ReaderInit /\ [][ReaderNext]_vars

----------------------------------------------------------------------------
\* Properties of the ingestion loop (checked under Spec)

\* the faults a step of processing a row raises
RowFaults == {"read_row", "KeyError", "upload", "applicants.add", "KeyError:comment",
              "KeyError:id", "add_to_vacancy"}

AllKeys == {"vacancy", "last_name", "first_name", "money", "comment", "status"}
FullRecord(c) == AllKeys \subseteq DOMAIN c
LookupMiss(c) == ~vacancy_found(c) \/ ~status_found(c)

\* row r of the spreadsheet yields a record whose vacancy and status both resolve
RowResolves(r) ==
    LET rr == read_row(book, r)
    IN /\ rr.tag = "map"
       /\ {"vacancy", "status"} \subseteq DOMAIN rr.m
       /\ attach_guard(rr.m)

\* C1: when a run started at c has completed rows c..k-1 and a step of row k
\* raises, the checkpoint on disk after the run is k (the next run loads k).
C1_FaultKeepsFailingRow ==
    (pc = "idle" /\ exit_kind = "fault" /\ fault \in RowFaults) =>
        /\ status_file.exists
        /\ load(status_file) = cur_row
        /\ cur_row = run_start + rows_done
        /\ \A r \in RowIdx : (run_start <= r /\ r < cur_row) => created[r] >= 1

C1_Witness ==
    /\ pc = "idle"
    /\ exit_kind = "fault"
    /\ fault = "add_to_vacancy"
    /\ run_start = 1
    /\ cur_row = 2
    /\ load(status_file) = 2

\* C2: whenever the checkpoint on disk is n, every row in [initial checkpoint, n)
\* has had applicants.add return, and add_to_vacancy too when its vacancy and
\* status both resolved.
C2_NoRowSkipped ==
    status_file.exists =>
        \A r \in RowIdx : (start0 <= r /\ r < load(status_file)) =>
            /\ created[r] >= 1
            /\ RowResolves(r) => attached[r] >= 1

C2_Witness ==
    /\ runs >= 2
    /\ status_file.exists
    /\ load(status_file) = start0 + 2
    /\ post_faults[start0] >= 1
    /\ attached[start0] >= 1
    /\ created[start0 + 1] >= 1

\* C3 as stated: applicants.add succeeds at most once per row index, whatever
\* faults and restarts happen (here on the behaviours where only the external
\* collaborators fault: no run has ended by an exception of the program itself).
C3_CreatedAtMostOnce == ~local_fault => \A r \in RowIdx : created[r] <= 1

\* C3 amended: a row whose processing completed is never processed again; a
\* row is created once more only for each run that faulted in that row after
\* its creation call (while attaching it to the vacancy).
C3_CreatedOncePerAttempt ==
    \A r \in RowIdx :
        /\ created[r] <= 1 + post_faults[r]
        /\ completed[r] <= 1
        /\ (completed[r] = 1 /\ pc \in {"build", "resume", "add", "attach", "advance"})
               => row_number # r

C3_Witness ==
    \E r \in RowIdx :
        /\ created[r] = 2
        /\ post_faults[r] = 1
        /\ completed[r] = 1
        /\ pc = "idle"

\* C4: a run that ends by exhaustion at row e writes e, one past the last row
\* processed; every later run makes no submission, ends at once and leaves e.
C4_ExhaustionIsStable ==
    /\ (pc = "idle" /\ exit_kind = "exhausted") =>
          /\ written = 1
          /\ load(status_file) = cur_row
          /\ read_row(book, cur_row) = RMap(EmptyMap)
          /\ cur_row = run_start + rows_done
    /\ (exhausted_at # 0 /\ runs > exhausted_run) =>
          /\ subs = 0
          /\ rows_done = 0
          /\ pc \in {"idle", "open", "read", "finally"}
          /\ load(status_file) = exhausted_at
          /\ (pc = "idle" /\ exit_kind # "prelude") => written = 1
          /\ cur_row \in {0, exhausted_at}

C4_Witness ==
    /\ exhausted_run = 1
    /\ exhausted_at = 3
    /\ start0 = 1
    /\ runs = 3
    /\ pc = "idle"
    /\ exit_kind = "exhausted"
    /\ written = 1

\* C5: for a row with every field whose vacancy or status name is not in its
\* dictionary, nothing raises on account of the miss: the applicant is created,
\* add_to_vacancy is not called, the cursor advances by 1 and the loop reads
\* the next row (only a transport fault of upload or add ends the run there).
C5_LookupMissIsWarning ==
    [][(FullRecord(candidate) /\ LookupMiss(candidate)) =>
          /\ pc = "build" => pc' = "resume"
          /\ pc = "resume" => \/ pc' = "add"
                              \/ pc' = "finally" /\ fault' = "upload"
          /\ pc = "add" => \/ /\ pc' = "advance"
                              /\ created'[row_number] = created[row_number] + 1
                           \/ pc' = "finally" /\ fault' = "applicants.add"
          /\ pc = "advance" => /\ row_number' = row_number + 1
                               /\ pc' = "read"
                               /\ attached' = attached
          /\ pc # "attach"]_vars

C5_Witness ==
    /\ pc = "read"
    /\ FullRecord(candidate)
    /\ LookupMiss(candidate)
    /\ row_number = cur_row + 1
    /\ created[cur_row] = 1
    /\ attached[cur_row] = 0
    /\ completed[cur_row] = 1

\* C6: when no resume file is found the row still completes, in every
\* combination of vacancy and status found or not: for a row with every field
\* the only exceptions are those of the collaborators.
C6_NoResumeRowCompletes ==
    (pc = "finally" /\ resume = "empty" /\ FullRecord(candidate)) =>
        fault \in ExternalFaults

\* the sheet of the end-to-end scenario: a full row, a partial row, blank after
ExampleBook ==
    /\ book[1] = FullRow
    /\ book[2] = PartialRow
    /\ \A i \in 3..MaxRows : book[i] = BlankRow

\* C7: a non-empty partial record is a usable row: no key access on it ends the
\* run, and over the example sheet a first run from row 1 in which no
\* collaborator faults and the resume is found ends after 2 submissions with
\* checkpoint 3.
C7_PartialRowsUsable ==
    /\ pc = "finally" => fault \notin {"KeyError", "KeyError:comment"}
    /\ (/\ ExampleBook
        /\ start0 = 1
        /\ runs = 1
        /\ pc = "idle"
        /\ exit_kind \in {"exhausted", "fault"}
        /\ fault \notin ExternalFaults \cup {"KeyError:id"}) =>
            /\ subs = 2
            /\ load(status_file) = 3

\* the positions of a run between the checkpoint load and the end of the process
InRun == {"open", "read", "build", "resume", "add", "attach", "advance", "finally"}

\* C12: a run that reaches the loop reads the checkpoint once, before the loop
\* (the cursor is the value read plus the rows completed since), and writes the
\* file exactly once, after the loop, on every exit path; nothing is written
\* while rows are processed, and the value written is the start value plus the
\* number of rows completed in the run.
C12_CheckpointWrittenOnce ==
    /\ [](/\ pc \in InRun =>
               /\ written = 0
               /\ row_number = run_start + rows_done
          /\ (pc = "idle" /\ exit_kind \in {"exhausted", "fault"}) =>
               /\ written = 1
               /\ status_file.exists
               /\ load(status_file) = run_start + rows_done)
    /\ [][/\ status_file' # status_file => pc = "finally" /\ pc' = "idle"
          /\ written' # written => \/ pc = "finally" /\ pc' = "idle"
                                   \/ pc = "idle" /\ written' = 0
          /\ pc \in InRun => run_start' = run_start]_vars

C12_Witness ==
    /\ pc = "idle"
    /\ exit_kind = "fault"
    /\ fault = "applicants.add"
    /\ run_start = 1
    /\ rows_done = 1
    /\ written = 1
    /\ load(status_file) = 2

----------------------------------------------------------------------------
\* Properties of the parsers (checked under ParseSpec)

\* C8: every variant, on an absent cell, a string or a number, returns the null
\* result or a mapping with at least one entry, and never raises.
C8_ParseNeverRaises ==
    field # "init" =>
        \/ parsed.tag = "none"
        \/ parsed.tag = "map" /\ DOMAIN parsed.m # {}

HasDigit(s) == \E i \in 1..Len(s) : s[i] \in Digits

\* the integer of the first maximal run of whitespace-separated digit groups
FirstRunValue(s) ==
    LET i == CHOOSE x \in 1..Len(s) :
                 s[x] \in Digits /\ \A y \in 1..(x - 1) : s[y] \notin Digits
        ends == {j \in i..Len(s) :
                     /\ s[j] \in Digits
                     /\ \A k \in i..j : s[k] \in Digits \cup Whitespace}
        e == CHOOSE x \in ends : \A y \in ends : y <= x
    IN StrToInt(SelectSeq(SubSeq(s, i, e), LAMBDA c : c \in Digits))

\* C9: SeparatedIntegerField.parse returns null exactly when the text has no
\* digit, and otherwise the field mapped to the integer of the first maximal
\* run of whitespace-separated digit groups (0 included).
C9_SeparatedInteger ==
    (field = "SeparatedIntegerField" /\ cell.t = "str") =>
        IF HasDigit(cell.s)
        THEN parsed = RMap(("f" :> PyInt(FirstRunValue(cell.s))))
        ELSE parsed = RNone

\* the whitespace-separated tokens of a text
RECURSIVE Tokens(_)
Tokens(s) ==
    LET i == RunEnd(s, 1, Whitespace)
    IN IF i > Len(s) THEN <<>>
       ELSE LET j == RunEnd(s, i, Alphabet \ Whitespace)
            IN <<SubSeq(s, i, j - 1)>> \o Tokens(SubSeq(s, j, Len(s)))

\* C10: FullNameField.parse returns null for fewer than 2 whitespace-separated
\* tokens, else last_name and first_name from tokens 1 and 2 and middle_name
\* from token 3 when there is one; the names are non-empty tokens.
C10_FullNameTokens ==
    (field = "FullNameField" /\ cell.t = "str") =>
        LET toks == Tokens(cell.s)
            two == ("last_name" :> PyStr(toks[1])) @@ ("first_name" :> PyStr(toks[2]))
        IN IF Len(toks) < 2 THEN parsed = RNone
           ELSE IF Len(toks) = 2 THEN parsed = RMap(two)
           ELSE parsed = RMap(("middle_name" :> PyStr(toks[3])) @@ two)

----------------------------------------------------------------------------
\* Properties of the reader (checked under ReaderSpec)

\* every loaded workbook but the one the reader holds was closed once, and the
\* held one not yet
ClosedOnce ==
    /\ (wb_id # 0) <=> (workbook # "None")
    /\ \A w \in 1..MaxOpens :
          closed[w] = (IF w <= loaded /\ w # wb_id THEN 1 ELSE 0)

\* C11: over any sequence of open, read_row, close and with-block enter/exit,
\* a loaded workbook is never dropped unclosed nor closed twice: open on an
\* open reader closes the held workbook before it loads, leaving a with block
\* closes the held workbook on every exit path, and read_row or close on a
\* reader with no workbook raise the not-open error and change nothing.
C11_WorkbookClosedOnce ==
    /\ []ClosedOnce
    /\ [][/\ (last_op' = "open" /\ workbook # "None") =>
                /\ closed'[wb_id] = 1
                /\ wb_id' # wb_id
          /\ (last_op' \in ExitPaths /\ workbook # "None") =>
                /\ workbook' = "None"
                /\ closed'[wb_id] = 1
                /\ last_res' = "ok"
          /\ (last_op' \in {"read_row", "close"} /\ workbook = "None") =>
                /\ last_res' = "XLSXReaderException"
                /\ UNCHANGED <<workbook, sheet, candidate, wb_id, loaded, closed>>]_vars

C11_Witness ==
    /\ loaded = 3
    /\ reopens >= 1
    /\ last_op = "exception"
    /\ last_res = "ok"
    /\ workbook = "None"
    /\ \A w \in 1..3 : closed[w] = 1

\* C13: after any sequence of open, close and read_row calls, failed ones
\* included, the sheet is set exactly when the workbook is, so read_row never
\* gets past the not-open check with the sheet unset.
C13_SheetIffWorkbook ==
    /\ (sheet # "None") <=> (workbook # "None")
    /\ last_res # "TypeError"

====
